---- MODULE Spec2Model ----
(***************************************************************************)
(* A state-machine model of the darkmode-ai-server backend: the usage      *)
(* accountant (routes/sessions.ts), the subscription lifecycle handler     *)
(* (routes/webhooks.ts, routes/subscriptions.ts), the streak calculator    *)
(* (routes/analytics.ts) and the token issuer (services/auth.service.ts).  *)
(* The database tables are the variables; every route handler is one       *)
(* action that performs all of the handler's reads and writes.             *)
(***************************************************************************)
EXTENDS Integers, Sequences, FiniteSets, TLC

VARIABLES
    now,            \* the server clock, in milliseconds since the epoch of the model
    users,          \* table User: account id -> row
    sessions,       \* table Session: session id -> row (a deleted row leaves the domain)
    nextSessionId,  \* the next fresh Session id
    usageLogs,      \* table UsageLog, in insertion order
    analytics,      \* table UserAnalytics: account id -> row (no row: not in the domain)
    webhookEvents,  \* table WebhookEvent, in insertion order
    delivered,      \* the billing processor's side: the events it has sent and seen accepted
    outbox,         \* the mails handed to the SMTP transport and accepted by it
    refreshTokens,  \* table RefreshToken: the set of stored rows
    nextToken,      \* the next fresh refresh credential value
    consumed,       \* the credential values a successful refresh has exchanged
    issued,         \* history: credential value -> the account it was issued to
    revoked,        \* history: the values issued to an account before a logout-all of it
    endRequests,    \* the end requests handled step by step: request -> its position
    createRequests, \* the creation requests handled step by step
    refreshRequests,\* the refresh calls handled step by step
    streakRequests, \* the streak requests handled step by step
    lastOp          \* the last request handled and the HTTP status it was answered with

vars == <<now, users, sessions, nextSessionId, usageLogs, analytics, webhookEvents,
          delivered, outbox, refreshTokens, nextToken, consumed, issued, revoked,
          endRequests, createRequests, refreshRequests, streakRequests, lastOp>>

usageVars   == <<users, sessions, nextSessionId, usageLogs, analytics>>
billingVars == <<webhookEvents, delivered, outbox>>
authVars    == <<refreshTokens, nextToken, consumed, issued, revoked>>
requestVars == <<endRequests, createRequests, refreshRequests, streakRequests>>

----------------------------------------------------------------------------
(* Bounds of the model.                                                    *)

\* Calendar days the clock may run through.
MaxDays == 2
\* Short clock steps (of ShortStep milliseconds) taken within one calendar day.
MaxShortSteps == 1
\* Session rows ever created.
MaxSessions == 2
\* Session rows ever created where the daily cap is examined.
MaxDailySessions == 4
\* UsageLog rows ever written.
MaxLogs == 2
\* Webhook deliveries that pass signature verification.
MaxDeliveries == 2
\* Refresh credentials ever issued.
MaxTokens == 3
\* End requests handled step by step, concurrently.
MaxEndRequests == 2
\* Creation requests handled step by step, concurrently.
MaxCreateRequests == 2
\* Refresh calls handled step by step, concurrently.
MaxRefreshRequests == 2
\* Streak requests handled step by step, concurrently.
MaxStreakRequests == 2
\* Calendar days the clock may run through where streaks are examined.
MaxStreakDays == 4
\* Calendar days the clock may run through where credentials are examined.
MaxAuthDays == 9

----------------------------------------------------------------------------
(* Program constants.                                                      *)

\* One calendar day and one short step, in milliseconds.
DayMs == 86400000
ShortStep == 125000
\* Date.getTime() differences are divided by 1000, a duration by 60.
MsPerSecond == 1000
SecondsPerMinute == 60
\* config.plans: the value -1 stands for "unlimited".
Unlimited == -1
FreeMaxSessionsPerDay == 3
ProMaxSessionsPerDay == -1
FreeMonthlyMinutes == 60
ProMonthlyMinutes == 600
\* generateTokens: a refresh credential lives 7 days.
RefreshDays == 7
\* HTTP status codes of the responses.
Ok == 200
Created == 201
BadRequest == 400
Unauthorized == 401
NotFound == 404
TooManyRequests == 429
InternalError == 500

\* A nullable timestamp or number that is null.
Null == -1
\* A nullable string that is null.
NoString == "null"

Users == {"u1", "u2"}
\* The accounts AuthService.register created, which have a UserAnalytics row from
\* the start; the other account's row is missing until a handler creates it.
RegisteredUsers == {"u1"}

\* The billing-customer reference the checkout route stores for an account.
CustomerOf(u) == "cus_" \o u
UnknownCustomer == "cus_unknown"

----------------------------------------------------------------------------
(* Time.                                                                   *)

\* new Date(); setHours(0, 0, 0, 0): the local midnight at or before t.
StartOfDay(t) == (t \div DayMs) * DayMs

\* Math.floor(a / b) and Math.ceil(a / b) for b > 0.
FloorDiv(a, b) == a \div b
CeilDiv(a, b) == IF a % b = 0 THEN a \div b ELSE (a \div b) + 1

NoEvent == [type |-> "none", customer |-> NoString, userId |-> NoString, status |-> NoString]

Op(op, u, id, ev, status) ==
    [op |-> op, user |-> u, id |-> id, ev |-> ev, status |-> status]

\* The clock advances by a short step, a bounded number of times a day.
TickShort ==
    /\ (now % DayMs) + ShortStep <= MaxShortSteps * ShortStep
    /\ now' = now + ShortStep
    /\ lastOp' = Op("tick", NoString, 0, NoEvent, 0)
    /\ UNCHANGED <<usageVars, billingVars, authVars, requestVars>>

\* The clock advances by a whole day, up to a number of days.
TickDay(days) ==
    /\ now + DayMs < days * DayMs
    /\ now' = now + DayMs
    /\ lastOp' = Op("tick", NoString, 0, NoEvent, 0)
    /\ UNCHANGED <<usageVars, billingVars, authVars, requestVars>>

----------------------------------------------------------------------------
(* Rows as the schema creates them.                                        *)

\* A User row after registration: the free tier.
NewUser ==
    [subscriptionStatus |-> "FREE", subscriptionId |-> NoString,
     subscriptionPlan |-> NoString, subscriptionEndDate |-> Null,
     stripeCustomerId |-> NoString,
     monthlyMinutesUsed |-> 0, monthlyMinutesLimit |-> FreeMonthlyMinutes,
     lastUsageReset |-> 0]

\* A Session row as session.create leaves it: ACTIVE, started and created now.
NewSession(u, t) ==
    [userId |-> u, status |-> "ACTIVE", startedAt |-> t, createdAt |-> t,
     endedAt |-> Null, durationSeconds |-> Null]

\* A UserAnalytics row with the column defaults (register's analytics: { create: {} }).
NewAnalytics ==
    [totalSessions |-> 0, totalDuration |-> 0,
     currentStreak |-> 0, longestStreak |-> 0, lastActiveDate |-> Null]

----------------------------------------------------------------------------
(* routes/sessions.ts                                                      *)

\* config.plans[planKey].maxSessionsPerDay
MaxSessionsPerDay(planKey) ==
    IF planKey = "pro" THEN ProMaxSessionsPerDay ELSE FreeMaxSessionsPerDay

\* planKey = subscriptionStatus === 'ACTIVE' ? 'pro' : 'free'
PlanKey(user) == IF user.subscriptionStatus = "ACTIVE" THEN "pro" ELSE "free"

\* session.count({ userId, createdAt: { gte: todayStart } })
TodaySessions(u) ==
    Cardinality({s \in DOMAIN sessions :
                    /\ sessions[s].userId = u
                    /\ sessions[s].createdAt >= StartOfDay(now)})

\* The daily check with the comparison off by one.
DailyLimitReachedOffByOne(u) ==
    /\ MaxSessionsPerDay(PlanKey(users[u])) # Unlimited
    /\ TodaySessions(u) > MaxSessionsPerDay(PlanKey(users[u]))

\* The daily check of POST /sessions: true when the request is to be refused.
DailyLimitReached(u) ==
    /\ MaxSessionsPerDay(PlanKey(users[u])) # Unlimited
    /\ TodaySessions(u) >= MaxSessionsPerDay(PlanKey(users[u]))

\* The minutes check applied to free accounts only.
MinutesLimitReachedFreeOnly(u) ==
    /\ PlanKey(users[u]) = "free"
    /\ users[u].monthlyMinutesUsed >= users[u].monthlyMinutesLimit

\* The minutes check of POST /sessions: true when the request is to be refused.
MinutesLimitReached(u) ==
    users[u].monthlyMinutesUsed >= users[u].monthlyMinutesLimit

\* POST /sessions
CreateSession(u, cap) ==
    IF DailyLimitReached(u) \/ MinutesLimitReached(u)
    THEN /\ lastOp' = Op("create", u, 0, NoEvent, TooManyRequests)
         /\ UNCHANGED <<now, usageVars, billingVars, authVars, requestVars>>
    ELSE /\ nextSessionId <= cap
         /\ sessions' = sessions @@ (nextSessionId :> NewSession(u, now))
         /\ nextSessionId' = nextSessionId + 1
         /\ lastOp' = Op("create", u, nextSessionId, NoEvent, Created)
         /\ UNCHANGED <<now, users, usageLogs, analytics, billingVars, authVars, requestVars>>

\* POST /sessions, call by call: the reads and the limit checks are one step
\* of request r, session.create is another, so that two requests interleave.

\* user.findUnique, session.count and the two limit checks.  seen: the count of
\* today's sessions the request has read.
CreateCheck(r, u) ==
    /\ r \notin DOMAIN createRequests
    /\ createRequests' = createRequests @@ (r :>
            [user |-> u, seen |-> TodaySessions(u),
             pc |-> IF DailyLimitReached(u) \/ MinutesLimitReached(u)
                    THEN "refused" ELSE "insert"])
    /\ lastOp' = Op("create_check", u, 0, NoEvent,
                    IF DailyLimitReached(u) \/ MinutesLimitReached(u)
                    THEN TooManyRequests ELSE 0)
    /\ UNCHANGED <<now, usageVars, billingVars, authVars,
                   endRequests, refreshRequests, streakRequests>>

\* The insert made only if the daily check still passes.
CreateInsertRechecks(r) ==
    /\ r \in DOMAIN createRequests
    /\ createRequests[r].pc = "insert"
    /\ IF DailyLimitReached(createRequests[r].user)
       THEN /\ createRequests' = [createRequests EXCEPT ![r].pc = "refused"]
            /\ lastOp' = Op("create_insert", createRequests[r].user, 0, NoEvent,
                            TooManyRequests)
            /\ UNCHANGED <<sessions, nextSessionId>>
       ELSE /\ sessions' = sessions @@
                    (nextSessionId :> NewSession(createRequests[r].user, now))
            /\ nextSessionId' = nextSessionId + 1
            /\ createRequests' = [createRequests EXCEPT ![r].pc = "done"]
            /\ lastOp' = Op("create_insert", createRequests[r].user, nextSessionId,
                            NoEvent, Created)
    /\ UNCHANGED <<now, users, usageLogs, analytics, billingVars, authVars,
                   endRequests, refreshRequests, streakRequests>>

\* session.create, then res.status(201)
CreateInsert(r) ==
    /\ r \in DOMAIN createRequests
    /\ createRequests[r].pc = "insert"
    /\ sessions' = sessions @@ (nextSessionId :> NewSession(createRequests[r].user, now))
    /\ nextSessionId' = nextSessionId + 1
    /\ createRequests' = [createRequests EXCEPT ![r].pc = "done"]
    /\ lastOp' = Op("create_insert", createRequests[r].user, nextSessionId, NoEvent, Created)
    /\ UNCHANGED <<now, users, usageLogs, analytics, billingVars, authVars,
                   endRequests, refreshRequests, streakRequests>>

\* session.findFirst({ id, userId }) of PATCH and DELETE
OwnSession(u, s) == s \in DOMAIN sessions /\ sessions[s].userId = u

\* PATCH /sessions/:id, with the body's status (NoString: the body has none)
UpdateSession(u, s, status) ==
    IF ~OwnSession(u, s)
    THEN /\ lastOp' = Op("update", u, s, NoEvent, NotFound)
         /\ UNCHANGED <<now, usageVars, billingVars, authVars, requestVars>>
    ELSE /\ sessions' = IF status = NoString THEN sessions
                        ELSE [sessions EXCEPT ![s].status = status]
         /\ lastOp' = Op("update", u, s, NoEvent, Ok)
         /\ UNCHANGED <<now, users, nextSessionId, usageLogs, analytics,
                        billingVars, authVars, requestVars>>

\* The lookup of the end route without its status filter.
OwnSessionAnyStatus(u, s) == OwnSession(u, s)

\* session.findFirst({ id, userId, status: 'ACTIVE' }) of POST /sessions/:id/end
OwnActiveSession(u, s) == OwnSession(u, s) /\ sessions[s].status = "ACTIVE"

DurationSeconds(s, endedAt) == FloorDiv(endedAt - sessions[s].startedAt, MsPerSecond)
\* The minutes of a session rounded down instead of up.
DurationMinutesRoundedDown(s, endedAt) ==
    FloorDiv(DurationSeconds(s, endedAt), SecondsPerMinute)

\* Math.ceil(durationSeconds / 60)
DurationMinutes(s, endedAt) == CeilDiv(DurationSeconds(s, endedAt), SecondsPerMinute)

\* userAnalytics.upsert of POST /sessions/:id/end
UpsertTotals(u, seconds) ==
    IF u \in DOMAIN analytics
    THEN [analytics EXCEPT ![u].totalSessions = @ + 1,
                           ![u].totalDuration = @ + seconds]
    ELSE analytics @@ (u :> [NewAnalytics EXCEPT !.totalSessions = 1,
                                                 !.totalDuration = seconds])

\* The increment stopped at the account's limit.
CreditMinutesUpToLimit(u, minutes) ==
    [users EXCEPT ![u].monthlyMinutesUsed =
        IF @ + minutes > users[u].monthlyMinutesLimit
        THEN users[u].monthlyMinutesLimit ELSE @ + minutes]

\* user.update({ monthlyMinutesUsed: { increment: durationMinutes } })
CreditMinutes(u, minutes) ==
    [users EXCEPT ![u].monthlyMinutesUsed = @ + minutes]

\* POST /sessions/:id/end
EndSession(u, s) ==
    IF ~OwnActiveSession(u, s)
    THEN /\ lastOp' = Op("end", u, s, NoEvent, NotFound)
         /\ UNCHANGED <<now, usageVars, billingVars, authVars, requestVars>>
    ELSE /\ Len(usageLogs) < MaxLogs
         /\ sessions' = [sessions EXCEPT ![s].endedAt = now,
                                         ![s].durationSeconds = DurationSeconds(s, now),
                                         ![s].status = "COMPLETED"]
         /\ users' = CreditMinutes(u, DurationMinutes(s, now))
         /\ analytics' = UpsertTotals(u, DurationSeconds(s, now))
         /\ usageLogs' = Append(usageLogs,
                [userId |-> u, type |-> "SESSION",
                 minutes |-> DurationMinutes(s, now), sessionId |-> s])
         /\ lastOp' = Op("end", u, s, NoEvent, Ok)
         /\ UNCHANGED <<now, nextSessionId, billingVars, authVars, requestVars>>

\* POST /sessions/:id/end, call by call.  Each await of the handler is one step
\* of request r, so that the calls of two requests interleave; the position pc
\* names the call the request makes next.

\* session.findFirst, then endedAt = new Date() and the two durations
EndFind(r, u, s) ==
    /\ r \notin DOMAIN endRequests
    /\ endRequests' = endRequests @@ (r :>
            IF OwnActiveSession(u, s)
            THEN [user |-> u, session |-> s, pc |-> "session",
                  durationSeconds |-> DurationSeconds(s, now),
                  durationMinutes |-> DurationMinutes(s, now), endedAt |-> now]
            ELSE [user |-> u, session |-> s, pc |-> "refused",
                  durationSeconds |-> Null, durationMinutes |-> Null, endedAt |-> Null])
    /\ lastOp' = Op("end_find", u, s, NoEvent,
                    IF OwnActiveSession(u, s) THEN 0 ELSE NotFound)
    /\ UNCHANGED <<now, usageVars, billingVars, authVars,
                   createRequests, refreshRequests, streakRequests>>

\* session.update({ where: { id }, data: { endedAt, durationSeconds, status } })
EndUpdateSession(r) ==
    /\ r \in DOMAIN endRequests
    /\ endRequests[r].pc = "session"
    /\ endRequests[r].session \in DOMAIN sessions
    /\ sessions' = [sessions EXCEPT
            ![endRequests[r].session].endedAt = endRequests[r].endedAt,
            ![endRequests[r].session].durationSeconds = endRequests[r].durationSeconds,
            ![endRequests[r].session].status = "COMPLETED"]
    /\ endRequests' = [endRequests EXCEPT ![r].pc = "user"]
    /\ lastOp' = Op("end_session", endRequests[r].user, endRequests[r].session, NoEvent, 0)
    /\ UNCHANGED <<now, users, nextSessionId, usageLogs, analytics, billingVars, authVars,
                   createRequests, refreshRequests, streakRequests>>

\* user.update({ monthlyMinutesUsed: { increment: durationMinutes } })
EndUpdateUser(r) ==
    /\ r \in DOMAIN endRequests
    /\ endRequests[r].pc = "user"
    /\ users' = CreditMinutes(endRequests[r].user, endRequests[r].durationMinutes)
    /\ endRequests' = [endRequests EXCEPT ![r].pc = "analytics"]
    /\ lastOp' = Op("end_user", endRequests[r].user, endRequests[r].session, NoEvent, 0)
    /\ UNCHANGED <<now, sessions, nextSessionId, usageLogs, analytics, billingVars, authVars,
                   createRequests, refreshRequests, streakRequests>>

\* userAnalytics.upsert
EndUpsertAnalytics(r) ==
    /\ r \in DOMAIN endRequests
    /\ endRequests[r].pc = "analytics"
    /\ analytics' = UpsertTotals(endRequests[r].user, endRequests[r].durationSeconds)
    /\ endRequests' = [endRequests EXCEPT ![r].pc = "log"]
    /\ lastOp' = Op("end_analytics", endRequests[r].user, endRequests[r].session, NoEvent, 0)
    /\ UNCHANGED <<now, users, sessions, nextSessionId, usageLogs, billingVars, authVars,
                   createRequests, refreshRequests, streakRequests>>

\* usageLog.create, then res.json
EndCreateLog(r) ==
    /\ r \in DOMAIN endRequests
    /\ endRequests[r].pc = "log"
    /\ usageLogs' = Append(usageLogs,
            [userId |-> endRequests[r].user, type |-> "SESSION",
             minutes |-> endRequests[r].durationMinutes,
             sessionId |-> endRequests[r].session])
    /\ endRequests' = [endRequests EXCEPT ![r].pc = "done"]
    /\ lastOp' = Op("end_log", endRequests[r].user, endRequests[r].session, NoEvent, Ok)
    /\ UNCHANGED <<now, users, sessions, nextSessionId, analytics, billingVars, authVars,
                   createRequests, refreshRequests, streakRequests>>

\* The database call the request makes next throws: catch (error) { next(error) }
EndThrow(r) ==
    /\ r \in DOMAIN endRequests
    /\ endRequests[r].pc \in {"session", "user", "analytics", "log"}
    /\ endRequests' = [endRequests EXCEPT ![r].pc = "failed"]
    /\ lastOp' = Op("end_throw", endRequests[r].user, endRequests[r].session,
                    NoEvent, InternalError)
    /\ UNCHANGED <<now, usageVars, billingVars, authVars,
                   createRequests, refreshRequests, streakRequests>>

\* DELETE /sessions/:id
DeleteSession(u, s) ==
    IF ~OwnSession(u, s)
    THEN /\ lastOp' = Op("delete", u, s, NoEvent, NotFound)
         /\ UNCHANGED <<now, usageVars, billingVars, authVars, requestVars>>
    ELSE /\ sessions' = [i \in DOMAIN sessions \ {s} |-> sessions[i]]
         /\ lastOp' = Op("delete", u, s, NoEvent, Ok)
         /\ UNCHANGED <<now, users, nextSessionId, usageLogs, analytics,
                        billingVars, authVars, requestVars>>

\* PATCH /user/profile: name, avatarUrl and the two preferences only
UpdateProfile(u) ==
    /\ lastOp' = Op("profile", u, 0, NoEvent, Ok)
    /\ UNCHANGED <<now, usageVars, billingVars, authVars, requestVars>>

----------------------------------------------------------------------------
(* routes/subscriptions.ts                                                 *)

\* The subscription the billing processor opens for a checkout, and its period end.
SubscriptionId == "sub_1"
PeriodEnd == 20 * DayMs

\* POST /subscriptions/checkout: the account gets its billing-customer reference
Checkout(u) ==
    /\ users' = IF users[u].stripeCustomerId = NoString
                THEN [users EXCEPT ![u].stripeCustomerId = CustomerOf(u)]
                ELSE users
    /\ lastOp' = Op("checkout", u, 0, NoEvent, Ok)
    /\ UNCHANGED <<now, sessions, nextSessionId, usageLogs, analytics,
                   billingVars, authVars, requestVars>>

\* POST /subscriptions/cancel and /resume: the status each writes
SetSubscriptionStatus(op, u, status) ==
    IF users[u].subscriptionId = NoString
    THEN /\ lastOp' = Op(op, u, 0, NoEvent, BadRequest)
         /\ UNCHANGED <<now, usageVars, billingVars, authVars, requestVars>>
    ELSE /\ users' = [users EXCEPT ![u].subscriptionStatus = status]
         /\ lastOp' = Op(op, u, 0, NoEvent, Ok)
         /\ UNCHANGED <<now, sessions, nextSessionId, usageLogs, analytics,
                        billingVars, authVars, requestVars>>

CancelSubscription(u) == SetSubscriptionStatus("cancel", u, "CANCELED")
ResumeSubscription(u) == SetSubscriptionStatus("resume", u, "ACTIVE")

----------------------------------------------------------------------------
(* routes/webhooks.ts                                                      *)

\* The events the billing processor may send.  An event is identified by its
\* content: a redelivery is a second delivery of an equal event.
Event(type, customer, userId, status) ==
    [type |-> type, customer |-> customer, userId |-> userId, status |-> status]

Customers == {CustomerOf("u1"), UnknownCustomer}

SubscriptionStatuses ==
    {"active", "trialing", "past_due", "canceled", "unpaid", "incomplete"}

Events ==
    {Event("checkout.session.completed", CustomerOf("u1"), u, NoString) :
        u \in {"u1", NoString}}
    \cup {Event("customer.subscription.updated", CustomerOf("u1"), NoString, s) :
        s \in SubscriptionStatuses}
    \cup {Event("customer.subscription.created", CustomerOf("u1"), NoString, "active")}
    \cup {Event(t, c, NoString, NoString) :
        t \in {"customer.subscription.deleted", "invoice.payment_succeeded",
               "invoice.payment_failed"},
        c \in Customers}
    \cup {Event("customer.created", CustomerOf("u1"), NoString, NoString)}

\* user.findUnique({ stripeCustomerId }): the accounts found (at most one)
UsersOfCustomer(us, c) == {u \in Users : us[u].stripeCustomerId = c}

\* handleCheckoutComplete
HandleCheckoutComplete(us, ev) ==
    IF ev.userId = NoString THEN us
    ELSE [us EXCEPT ![ev.userId].subscriptionId = SubscriptionId,
                    ![ev.userId].subscriptionStatus = "ACTIVE",
                    ![ev.userId].subscriptionPlan = "pro",
                    ![ev.userId].subscriptionEndDate = PeriodEnd,
                    ![ev.userId].monthlyMinutesLimit = ProMonthlyMinutes]

\* handleSubscriptionUpdate: the switch over subscription.status
MapStatus(s) ==
    CASE s = "active" -> "ACTIVE"
      [] s = "trialing" -> "TRIAL"
      [] s = "past_due" -> "PAST_DUE"
      [] s = "canceled" -> "CANCELED"
      [] s \in {"unpaid", "incomplete_expired"} -> "EXPIRED"
      [] OTHER -> "FREE"

\* handleSubscriptionUpdate
HandleSubscriptionUpdate(us, ev) ==
    [u \in Users |->
        IF u \in UsersOfCustomer(us, ev.customer)
        THEN [us[u] EXCEPT !.subscriptionId = SubscriptionId,
                           !.subscriptionStatus = MapStatus(ev.status),
                           !.subscriptionEndDate = PeriodEnd,
                           !.monthlyMinutesLimit =
                               IF MapStatus(ev.status) = "ACTIVE"
                               THEN ProMonthlyMinutes ELSE FreeMonthlyMinutes]
        ELSE us[u]]

\* handleSubscriptionDeleted resetting the usage along with the limit.
HandleSubscriptionDeletedResetsUsage(us, ev) ==
    [u \in Users |->
        IF u \in UsersOfCustomer(us, ev.customer)
        THEN [us[u] EXCEPT !.subscriptionId = NoString,
                           !.subscriptionStatus = "FREE",
                           !.subscriptionPlan = NoString,
                           !.subscriptionEndDate = Null,
                           !.monthlyMinutesUsed = 0,
                           !.monthlyMinutesLimit = FreeMonthlyMinutes]
        ELSE us[u]]

\* handleSubscriptionDeleted
HandleSubscriptionDeleted(us, ev) ==
    [u \in Users |->
        IF u \in UsersOfCustomer(us, ev.customer)
        THEN [us[u] EXCEPT !.subscriptionId = NoString,
                           !.subscriptionStatus = "FREE",
                           !.subscriptionPlan = NoString,
                           !.subscriptionEndDate = Null,
                           !.monthlyMinutesLimit = FreeMonthlyMinutes]
        ELSE us[u]]

\* handlePaymentSucceeded also bringing the account back to ACTIVE.
HandlePaymentSucceededRestoresActive(us, ev) ==
    [u \in Users |->
        IF u \in UsersOfCustomer(us, ev.customer)
        THEN [us[u] EXCEPT !.monthlyMinutesUsed = 0, !.lastUsageReset = now,
                           !.subscriptionStatus = "ACTIVE"]
        ELSE us[u]]

\* handlePaymentSucceeded
HandlePaymentSucceeded(us, ev) ==
    [u \in Users |->
        IF u \in UsersOfCustomer(us, ev.customer)
        THEN [us[u] EXCEPT !.monthlyMinutesUsed = 0, !.lastUsageReset = now]
        ELSE us[u]]

\* handlePaymentFailed: the account update
HandlePaymentFailed(us, ev) ==
    [u \in Users |->
        IF u \in UsersOfCustomer(us, ev.customer)
        THEN [us[u] EXCEPT !.subscriptionStatus = "PAST_DUE"]
        ELSE us[u]]

\* handlePaymentFailed: the mails emailService.sendPaymentFailed hands over
PaymentFailedMails(us, ev) ==
    IF ev.type = "invoice.payment_failed"
    THEN {[to |-> u, kind |-> "payment_failed", event |-> ev] :
            u \in UsersOfCustomer(us, ev.customer)}
    ELSE {}

\* The switch of the webhook route: the User table after the event's handler.
Dispatch(us, ev) ==
    CASE ev.type = "checkout.session.completed" -> HandleCheckoutComplete(us, ev)
      [] ev.type \in {"customer.subscription.created",
                      "customer.subscription.updated"} -> HandleSubscriptionUpdate(us, ev)
      [] ev.type = "customer.subscription.deleted" -> HandleSubscriptionDeleted(us, ev)
      [] ev.type = "invoice.payment_succeeded" -> HandlePaymentSucceeded(us, ev)
      [] ev.type = "invoice.payment_failed" -> HandlePaymentFailed(us, ev)
      [] OTHER -> us

\* webhookEvent.create: the record of one delivery
NewWebhookEvent(ev) == [eventType |-> ev.type, processed |-> FALSE, error |-> NoString]

\* webhookEvent.updateMany({ where: { eventType, processed: false }, data: ... })
MarkProcessed(log, type) ==
    [i \in DOMAIN log |->
        IF log[i].eventType = type /\ ~log[i].processed
        THEN [log[i] EXCEPT !.processed = TRUE] ELSE log[i]]

\* The catch block leaving the records as they are.
RecordNothing(log, type) == log

\* webhookEvent.updateMany({ where: { eventType, processed: false }, data: { error } })
RecordError(log, type) ==
    [i \in DOMAIN log |->
        IF log[i].eventType = type /\ ~log[i].processed
        THEN [log[i] EXCEPT !.error = "error"] ELSE log[i]]

\* The mails of a set, appended in some order (the set holds at most one).
AppendAll(box, mails) ==
    IF mails = {} THEN box ELSE Append(box, CHOOSE m \in mails : TRUE)

\* The route persisting the delivery before it verifies the signature.
WebhookBadSignaturePersists ==
    /\ Len(webhookEvents) < MaxDeliveries
    /\ webhookEvents' = Append(webhookEvents, NewWebhookEvent(NoEvent))
    /\ lastOp' = Op("webhook", NoString, 0, NoEvent, BadRequest)
    /\ UNCHANGED <<now, usageVars, delivered, outbox, authVars, requestVars>>

\* POST /webhooks/stripe with a signature constructEvent refuses
WebhookBadSignature ==
    /\ lastOp' = Op("webhook", NoString, 0, NoEvent, BadRequest)
    /\ UNCHANGED <<now, usageVars, billingVars, authVars, requestVars>>

\* The places where a call of the route may throw, and the number lastOp.id
\* carries for each.
FailPoints == {"none", "handler", "mark"}
FailCode(failAt) == CASE failAt = "handler" -> 1 [] failAt = "mark" -> 2 [] OTHER -> 0

\* Whether the switch runs a handler that calls the database or the billing API
\* for ev, so that handling it may throw.
HandlerCalls(ev) ==
    /\ ev.type \in {"checkout.session.completed", "customer.subscription.created",
                    "customer.subscription.updated", "customer.subscription.deleted",
                    "invoice.payment_succeeded", "invoice.payment_failed"}
    /\ ev.type = "checkout.session.completed" => ev.userId # NoString

\* POST /webhooks/stripe for a verified delivery of ev.  failAt: where a database
\* or billing-API call throws ("handler": inside the event's handler, before its
\* write; "mark": the updateMany that marks the record processed; "none":
\* nowhere).  sendOk: the SMTP transport is configured and accepts the mail.
Webhook(ev, failAt, sendOk) ==
    /\ Len(webhookEvents) < MaxDeliveries
    /\ users' = IF failAt = "handler" THEN users ELSE Dispatch(users, ev)
    /\ outbox' = IF failAt = "handler" \/ ~sendOk THEN outbox
                 ELSE AppendAll(outbox, PaymentFailedMails(users, ev))
    /\ webhookEvents' =
           IF failAt = "none"
           THEN MarkProcessed(Append(webhookEvents, NewWebhookEvent(ev)), ev.type)
           ELSE RecordError(Append(webhookEvents, NewWebhookEvent(ev)), ev.type)
    /\ delivered' = IF failAt = "none" THEN delivered \cup {ev} ELSE delivered
    /\ lastOp' = Op("webhook", NoString, FailCode(failAt), ev,
                    IF failAt = "none" THEN Ok ELSE InternalError)
    /\ UNCHANGED <<now, sessions, nextSessionId, usageLogs, analytics, authVars,
                   requestVars>>

\* The billing processor sends events about customers it knows: one the checkout
\* route has created for an account, or one no account refers to.
Sendable(ev) ==
    \/ ev.customer = UnknownCustomer
    \/ \E u \in Users : users[u].stripeCustomerId = ev.customer

\* Whether the transport's answer matters to a delivery of ev.
SendsMail(ev, failAt) == failAt # "handler" /\ PaymentFailedMails(users, ev) # {}

----------------------------------------------------------------------------
(* routes/analytics.ts: the streak calculator                              *)

\* The same-day test left out.
ActiveTodayNever(row, t) == FALSE

\* lastActive.setHours(0, 0, 0, 0); lastActive.getTime() === today.getTime()
ActiveToday(row, t) ==
    row.lastActiveDate # Null /\ StartOfDay(row.lastActiveDate) = StartOfDay(t)

\* The yesterday test left out.
ActiveYesterdayNever(row, t) == FALSE

\* lastActive.getTime() === yesterday.getTime()
ActiveYesterday(row, t) ==
    row.lastActiveDate # Null
    /\ StartOfDay(row.lastActiveDate) = StartOfDay(t) - DayMs

\* The streak taken as broken when the last active day is yesterday, too.
StreakBrokenSinceYesterday(row, t) ==
    row.lastActiveDate # Null
    /\ StartOfDay(row.lastActiveDate) < StartOfDay(t)

\* lastActive < yesterday, of GET /analytics/streak
StreakBroken(row, t) ==
    row.lastActiveDate # Null
    /\ StartOfDay(row.lastActiveDate) < StartOfDay(t) - DayMs

\* The streak continued over a gap of any length.
NewStreakOverAnyGap(row, t) ==
    IF row.lastActiveDate # Null THEN row.currentStreak + 1 ELSE 1

\* let newStreak = 1; ... newStreak = analytics.currentStreak + 1
NewStreak(row, t) == IF ActiveYesterday(row, t) THEN row.currentStreak + 1 ELSE 1

\* The new streak taken as the longest whatever the longest was.
MaxTakesFirst(a, b) == a

\* Math.max(newStreak, analytics.longestStreak)
Max(a, b) == IF a >= b THEN a ELSE b

\* GET /analytics/streak: a read that resets a broken streak
StreakCheck(u) ==
    /\ analytics' = IF u \in DOMAIN analytics /\ StreakBroken(analytics[u], now)
                    THEN [analytics EXCEPT ![u].currentStreak = 0]
                    ELSE analytics
    /\ lastOp' = Op("streak_check", u,
                    IF u \in DOMAIN analytics /\ ~StreakBroken(analytics[u], now)
                    THEN analytics[u].currentStreak ELSE 0,
                    NoEvent, Ok)
    /\ UNCHANGED <<now, users, sessions, nextSessionId, usageLogs, billingVars, authVars,
                   requestVars>>

\* POST /analytics/streak/update.  The id of lastOp tells the handler's path: 1
\* when it wrote (create or update), 0 when it returned "already active today".
StreakUpdate(u) ==
    /\ analytics' =
        IF u \notin DOMAIN analytics
        THEN analytics @@ (u :> [NewAnalytics EXCEPT !.currentStreak = 1,
                                                     !.longestStreak = 1,
                                                     !.lastActiveDate = StartOfDay(now)])
        ELSE IF ActiveToday(analytics[u], now)
        THEN analytics
        ELSE [analytics EXCEPT
                ![u].currentStreak = NewStreak(analytics[u], now),
                ![u].longestStreak = Max(NewStreak(analytics[u], now),
                                         analytics[u].longestStreak),
                ![u].lastActiveDate = StartOfDay(now)]
    /\ lastOp' = Op("streak_update", u,
                    IF u \in DOMAIN analytics /\ ActiveToday(analytics[u], now)
                    THEN 0 ELSE 1,
                    NoEvent, Ok)
    /\ UNCHANGED <<now, users, sessions, nextSessionId, usageLogs, billingVars, authVars,
                   requestVars>>

\* The two streak routes, call by call: the read and the write of a request are
\* separate steps of request r.  A request keeps the row it has read and the
\* midnight it has computed.

\* GET /analytics/streak: userAnalytics.findUnique and the test of the streak
StreakCheckRead(r, u) ==
    /\ r \notin DOMAIN streakRequests
    /\ streakRequests' = streakRequests @@ (r :>
            [route |-> "check", user |-> u, today |-> StartOfDay(now),
             row |-> IF u \in DOMAIN analytics THEN analytics[u] ELSE NewAnalytics,
             pc |-> IF u \in DOMAIN analytics /\ StreakBroken(analytics[u], now)
                    THEN "reset" ELSE "done"])
    /\ lastOp' = Op("streak_check_read", u, 0, NoEvent, 0)
    /\ UNCHANGED <<now, usageVars, billingVars, authVars,
                   endRequests, createRequests, refreshRequests>>

\* GET /analytics/streak: userAnalytics.update({ currentStreak: 0 })
StreakCheckWrite(r) ==
    /\ r \in DOMAIN streakRequests
    /\ streakRequests[r].pc = "reset"
    /\ analytics' = [analytics EXCEPT ![streakRequests[r].user].currentStreak = 0]
    /\ streakRequests' = [streakRequests EXCEPT ![r].pc = "done"]
    /\ lastOp' = Op("streak_check_write", streakRequests[r].user, 0, NoEvent, Ok)
    /\ UNCHANGED <<now, users, sessions, nextSessionId, usageLogs, billingVars, authVars,
                   endRequests, createRequests, refreshRequests>>

\* POST /analytics/streak/update: userAnalytics.findUnique and the choice of
\* the write
StreakUpdateRead(r, u) ==
    /\ r \notin DOMAIN streakRequests
    /\ streakRequests' = streakRequests @@ (r :>
            [route |-> "update", user |-> u, today |-> StartOfDay(now),
             row |-> IF u \in DOMAIN analytics THEN analytics[u] ELSE NewAnalytics,
             pc |-> IF u \notin DOMAIN analytics THEN "create"
                    ELSE IF ActiveToday(analytics[u], now) THEN "done"
                    ELSE "update"])
    /\ lastOp' = Op("streak_update_read", u, 0, NoEvent, 0)
    /\ UNCHANGED <<now, usageVars, billingVars, authVars,
                   endRequests, createRequests, refreshRequests>>

\* POST /analytics/streak/update: userAnalytics.create (it throws when the row
\* exists by now) or userAnalytics.update with the values computed from the row
\* that was read
StreakUpdateWrite(r) ==
    /\ r \in DOMAIN streakRequests
    /\ streakRequests[r].pc \in {"create", "update"}
    /\ LET u == streakRequests[r].user
           row == streakRequests[r].row
           today == streakRequests[r].today
       IN IF streakRequests[r].pc = "create"
          THEN IF u \in DOMAIN analytics
               THEN /\ analytics' = analytics
                    /\ streakRequests' = [streakRequests EXCEPT ![r].pc = "failed"]
                    /\ lastOp' = Op("streak_update_write", u, 0, NoEvent, InternalError)
               ELSE /\ analytics' = analytics @@
                            (u :> [NewAnalytics EXCEPT !.currentStreak = 1,
                                                       !.longestStreak = 1,
                                                       !.lastActiveDate = today])
                    /\ streakRequests' = [streakRequests EXCEPT ![r].pc = "done"]
                    /\ lastOp' = Op("streak_update_write", u, 1, NoEvent, Ok)
          ELSE /\ analytics' = [analytics EXCEPT
                        ![u].currentStreak = NewStreak(row, today),
                        ![u].longestStreak = Max(NewStreak(row, today), row.longestStreak),
                        ![u].lastActiveDate = today]
               /\ streakRequests' = [streakRequests EXCEPT ![r].pc = "done"]
               /\ lastOp' = Op("streak_update_write", u, 1, NoEvent, Ok)
    /\ UNCHANGED <<now, users, sessions, nextSessionId, usageLogs, billingVars, authVars,
                   endRequests, createRequests, refreshRequests>>

----------------------------------------------------------------------------
(* services/auth.service.ts: the token issuer                              *)

\* refreshToken.findUnique({ token }): the rows found (at most one)
StoredTokens(t) == {r \in refreshTokens : r.token = t}

\* generateTokens: the row refreshToken.create stores.  crypto.randomBytes(64)
\* is modelled as a value never drawn before.
NewToken(u) == [token |-> nextToken, userId |-> u, expiresAt |-> now + RefreshDays * DayMs]

\* The expiry test left out.
ExpiredNever(r) == FALSE

\* storedToken.expiresAt < new Date()
Expired(r) == r.expiresAt < now

\* The stored credential kept on refresh.
KeepToken(rows, r) == rows

\* refreshToken.delete({ id: storedToken.id })
DeleteToken(rows, r) == rows \ {r}

\* AuthService.login for a correct password: generateTokens
Login(u) ==
    /\ nextToken <= MaxTokens
    /\ refreshTokens' = refreshTokens \cup {NewToken(u)}
    /\ nextToken' = nextToken + 1
    /\ issued' = issued @@ (nextToken :> u)
    /\ lastOp' = Op("login", u, nextToken, NoEvent, Ok)
    /\ UNCHANGED <<now, usageVars, billingVars, consumed, revoked, requestVars>>

\* POST /auth/refresh with credential value t: AuthService.refreshTokens
Refresh(t) ==
    IF StoredTokens(t) = {}
    THEN /\ lastOp' = Op("refresh", NoString, t, NoEvent, Unauthorized)
         /\ UNCHANGED <<now, usageVars, billingVars, authVars, requestVars>>
    ELSE LET r == CHOOSE r \in StoredTokens(t) : TRUE IN
         IF Expired(r)
         THEN /\ refreshTokens' = DeleteToken(refreshTokens, r)
              /\ lastOp' = Op("refresh", r.userId, t, NoEvent, Unauthorized)
              /\ UNCHANGED <<now, usageVars, billingVars, nextToken, consumed,
                             issued, revoked, requestVars>>
         ELSE /\ nextToken <= MaxTokens
              /\ refreshTokens' = DeleteToken(refreshTokens, r) \cup {NewToken(r.userId)}
              /\ nextToken' = nextToken + 1
              /\ consumed' = consumed \cup {t}
              /\ issued' = issued @@ (nextToken :> r.userId)
              /\ lastOp' = Op("refresh", r.userId, t, NoEvent, Ok)
              /\ UNCHANGED <<now, usageVars, billingVars, revoked, requestVars>>

\* AuthService.refreshTokens, call by call: each await is one step of call r.

\* refreshToken.findUnique and the expiry test
RefreshFind(r, t) ==
    /\ r \notin DOMAIN refreshRequests
    /\ refreshRequests' = refreshRequests @@ (r :>
            IF StoredTokens(t) = {}
            THEN [token |-> t, row |-> NoString, pc |-> "refused"]
            ELSE LET row == CHOOSE x \in StoredTokens(t) : TRUE IN
                 [token |-> t, row |-> row,
                  pc |-> IF Expired(row) THEN "expired" ELSE "delete"])
    /\ lastOp' = Op("refresh_find", NoString, t, NoEvent,
                    IF StoredTokens(t) = {} THEN Unauthorized ELSE 0)
    /\ UNCHANGED <<now, usageVars, billingVars, authVars,
                   endRequests, createRequests, streakRequests>>

\* refreshToken.delete of the expired row, then throw unauthorized
RefreshDeleteExpired(r) ==
    /\ r \in DOMAIN refreshRequests
    /\ refreshRequests[r].pc = "expired"
    /\ refreshTokens' = DeleteToken(refreshTokens, refreshRequests[r].row)
    /\ refreshRequests' = [refreshRequests EXCEPT ![r].pc = "refused"]
    /\ lastOp' = Op("refresh_expired", refreshRequests[r].row.userId,
                    refreshRequests[r].token, NoEvent,
                    IF refreshRequests[r].row \in refreshTokens
                    THEN Unauthorized ELSE InternalError)
    /\ UNCHANGED <<now, usageVars, billingVars, nextToken, consumed, issued, revoked,
                   endRequests, createRequests, streakRequests>>

\* The delete that does not throw when the row is gone.
RefreshDeleteMany(r) ==
    /\ r \in DOMAIN refreshRequests
    /\ refreshRequests[r].pc = "delete"
    /\ refreshTokens' = DeleteToken(refreshTokens, refreshRequests[r].row)
    /\ refreshRequests' = [refreshRequests EXCEPT ![r].pc = "issue"]
    /\ lastOp' = Op("refresh_delete", refreshRequests[r].row.userId,
                    refreshRequests[r].token, NoEvent, 0)
    /\ UNCHANGED <<now, usageVars, billingVars, nextToken, consumed, issued, revoked,
                   endRequests, createRequests, streakRequests>>

\* refreshToken.delete({ where: { id } }): it throws when the row is gone
RefreshDelete(r) ==
    /\ r \in DOMAIN refreshRequests
    /\ refreshRequests[r].pc = "delete"
    /\ refreshTokens' = DeleteToken(refreshTokens, refreshRequests[r].row)
    /\ refreshRequests' = [refreshRequests EXCEPT ![r].pc =
            IF refreshRequests[r].row \in refreshTokens THEN "issue" ELSE "failed"]
    /\ lastOp' = Op("refresh_delete", refreshRequests[r].row.userId,
                    refreshRequests[r].token, NoEvent,
                    IF refreshRequests[r].row \in refreshTokens THEN 0 ELSE InternalError)
    /\ UNCHANGED <<now, usageVars, billingVars, nextToken, consumed, issued, revoked,
                   endRequests, createRequests, streakRequests>>

\* generateTokens: refreshToken.create of the new credential
RefreshIssue(r) ==
    /\ r \in DOMAIN refreshRequests
    /\ refreshRequests[r].pc = "issue"
    /\ nextToken <= MaxTokens
    /\ refreshTokens' = refreshTokens \cup {NewToken(refreshRequests[r].row.userId)}
    /\ nextToken' = nextToken + 1
    /\ consumed' = consumed \cup {refreshRequests[r].token}
    /\ issued' = issued @@ (nextToken :> refreshRequests[r].row.userId)
    /\ refreshRequests' = [refreshRequests EXCEPT ![r].pc = "done"]
    /\ lastOp' = Op("refresh_issue", refreshRequests[r].row.userId,
                    refreshRequests[r].token, NoEvent, Ok)
    /\ UNCHANGED <<now, usageVars, billingVars, revoked,
                   endRequests, createRequests, streakRequests>>

\* POST /auth/logout with credential value t: deleteMany({ token })
Logout(t) ==
    /\ refreshTokens' = {r \in refreshTokens : r.token # t}
    /\ lastOp' = Op("logout", NoString, t, NoEvent, Ok)
    /\ UNCHANGED <<now, usageVars, billingVars, nextToken, consumed, issued, revoked,
                   requestVars>>

\* The values issued to account u so far.
IssuedTo(u) == {t \in DOMAIN issued : issued[t] = u}

\* Logout-all sparing the account's most recently issued credential.
LogoutAllButNewest(u) ==
    /\ refreshTokens' = {r \in refreshTokens :
                            \/ r.userId # u
                            \/ \A t \in IssuedTo(u) : t <= r.token}
    /\ revoked' = revoked \cup IssuedTo(u)
    /\ lastOp' = Op("logout_all", u, 0, NoEvent, Ok)
    /\ UNCHANGED <<now, usageVars, billingVars, nextToken, consumed, issued, requestVars>>

\* POST /auth/logout-all by account u: deleteMany({ userId })
LogoutAll(u) ==
    /\ refreshTokens' = {r \in refreshTokens : r.userId # u}
    /\ revoked' = revoked \cup IssuedTo(u)
    /\ lastOp' = Op("logout_all", u, 0, NoEvent, Ok)
    /\ UNCHANGED <<now, usageVars, billingVars, nextToken, consumed, issued, requestVars>>

----------------------------------------------------------------------------
Init ==
    /\ now = 0
    /\ users = [u \in Users |-> NewUser]
    /\ sessions = <<>>
    /\ nextSessionId = 1
    /\ usageLogs = <<>>
    /\ analytics = [u \in RegisteredUsers |-> NewAnalytics]
    /\ webhookEvents = <<>>
    /\ delivered = {}
    /\ outbox = <<>>
    /\ refreshTokens = {}
    /\ nextToken = 1
    /\ consumed = {}
    /\ issued = <<>>
    /\ revoked = {}
    /\ endRequests = <<>>
    /\ createRequests = <<>>
    /\ refreshRequests = <<>>
    /\ streakRequests = <<>>
    /\ lastOp = Op("init", NoString, 0, NoEvent, 0)

SessionStatuses == {"ACTIVE", "COMPLETED"}

\* The checkout-completed event of account u1, which makes it a pro account.
CheckoutCompleted == Event("checkout.session.completed", CustomerOf("u1"), "u1", NoString)

\* The usage accountant: both accounts work with sessions; u1 may subscribe.
Next ==
    \/ TickShort
    \/ TickDay(MaxDays)
    \/ \E u \in Users : CreateSession(u, MaxSessions)
    \/ \E u \in Users, s \in 1..MaxSessions, st \in SessionStatuses \cup {NoString} :
            UpdateSession(u, s, st)
    \/ \E u \in Users, s \in 1..MaxSessions : EndSession(u, s)
    \/ \E u \in Users, s \in 1..MaxSessions : DeleteSession(u, s)
    \/ Checkout("u1")
    \/ Sendable(CheckoutCompleted) /\ Webhook(CheckoutCompleted, "none", TRUE)

Spec == Init /\ [][Next]_vars

\* The subscription lifecycle: account u1 is billed and uses one session; every
\* request of the usage accountant and every billing event occurs.
NextBilling ==
    \/ TickShort
    \/ CreateSession("u1", 1)
    \/ \E st \in SessionStatuses \cup {NoString} : UpdateSession("u1", 1, st)
    \/ EndSession("u1", 1)
    \/ DeleteSession("u1", 1)
    \/ UpdateProfile("u1")
    \/ Checkout("u1")
    \/ CancelSubscription("u1")
    \/ ResumeSubscription("u1")
    \/ WebhookBadSignature
    \/ \E ev \in Events, sendOk \in BOOLEAN :
            /\ Sendable(ev)
            /\ sendOk \/ SendsMail(ev, "none")
            /\ Webhook(ev, "none", sendOk)

SpecBilling == Init /\ [][NextBilling]_vars

\* The webhook receiver: deliveries of every event to account u1's customer and
\* to a customer no account refers to, where any call of the route may throw.
NextDelivery ==
    \/ Checkout("u1")
    \/ WebhookBadSignature
    \/ \E ev \in Events, failAt \in FailPoints, sendOk \in BOOLEAN :
            /\ Sendable(ev)
            /\ failAt = "handler" => HandlerCalls(ev)
            /\ sendOk \/ SendsMail(ev, failAt)
            /\ Webhook(ev, failAt, sendOk)

SpecDelivery == Init /\ [][NextDelivery]_vars

\* Concurrent end requests: the accounts create sessions and end them with
\* requests whose database calls interleave and may throw.
NextConcurrent ==
    \/ TickShort
    \/ \E u \in Users : CreateSession(u, MaxSessions)
    \/ \E r \in 1..MaxEndRequests, u \in Users, s \in 1..MaxSessions : EndFind(r, u, s)
    \/ \E r \in 1..MaxEndRequests : EndUpdateSession(r)
    \/ \E r \in 1..MaxEndRequests : EndUpdateUser(r)
    \/ \E r \in 1..MaxEndRequests : EndUpsertAnalytics(r)
    \/ \E r \in 1..MaxEndRequests : EndCreateLog(r)
    \/ \E r \in 1..MaxEndRequests : EndThrow(r)

SpecConcurrent == Init /\ [][NextConcurrent]_vars

\* Concurrent creation requests: account u1 creates two sessions one after the
\* other and then sends creation requests whose checks and inserts interleave.
NextCreateRace ==
    \/ TickDay(MaxDays)
    \/ CreateSession("u1", 2)
    \/ \E s \in 1..2 : DeleteSession("u1", s)
    \/ \E r \in 1..MaxCreateRequests : CreateCheck(r, "u1")
    \/ \E r \in 1..MaxCreateRequests : CreateInsert(r)

SpecCreateRace == Init /\ [][NextCreateRace]_vars

\* The daily cap: account u1 creates, ends and deletes sessions over the days.
NextDaily ==
    \/ TickDay(MaxDays)
    \/ CreateSession("u1", MaxDailySessions)
    \/ \E s \in 1..MaxDailySessions : EndSession("u1", s)
    \/ \E s \in 1..MaxDailySessions : DeleteSession("u1", s)
    \/ Checkout("u1")
    \/ Sendable(CheckoutCompleted) /\ Webhook(CheckoutCompleted, "none", TRUE)

SpecDaily == Init /\ [][NextDaily]_vars

\* The streak calculator: both accounts check and update their streaks over the
\* days; ending a session is what creates a missing analytics row otherwise.
NextStreak ==
    \/ TickDay(MaxStreakDays)
    \/ \E u \in Users : StreakCheck(u)
    \/ \E u \in Users : StreakUpdate(u)

SpecStreak == Init /\ [][NextStreak]_vars

\* Concurrent streak requests: the accounts update their streaks one request
\* after the other over the days, and send checks and updates whose reads and
\* writes interleave.
NextStreakRace ==
    \/ TickDay(MaxStreakDays)
    \/ \E u \in Users : StreakUpdate(u)
    \/ \E r \in 1..MaxStreakRequests, u \in Users : StreakCheckRead(r, u)
    \/ \E r \in 1..MaxStreakRequests : StreakCheckWrite(r)
    \/ \E r \in 1..MaxStreakRequests, u \in Users : StreakUpdateRead(r, u)
    \/ \E r \in 1..MaxStreakRequests : StreakUpdateWrite(r)

SpecStreakRace == Init /\ [][NextStreakRace]_vars

\* The streak calculator next to the usage accountant: both accounts check and
\* update their streaks, and one of them creates and completes a session.
NextActivity ==
    \/ TickDay(MaxStreakDays)
    \/ \E u \in Users : StreakCheck(u)
    \/ \E u \in Users : StreakUpdate(u)
    \/ \E u \in Users : CreateSession(u, 1)
    \/ \E u \in Users : EndSession(u, 1)

SpecActivity == Init /\ [][NextActivity]_vars

\* The token issuer: logins, refreshes and logouts over the days.
NextAuth ==
    \/ TickDay(MaxAuthDays)
    \/ \E u \in Users : Login(u)
    \/ \E t \in 1..MaxTokens : Refresh(t)
    \/ \E t \in 1..MaxTokens : Logout(t)
    \/ \E u \in Users : LogoutAll(u)

SpecAuth == Init /\ [][NextAuth]_vars

\* Concurrent refresh calls: the accounts log in and refresh with calls whose
\* database calls interleave, over the days in which credentials expire.
NextRefreshRace ==
    \/ TickDay(MaxAuthDays)
    \/ \E u \in Users : Login(u)
    \/ \E r \in 1..MaxRefreshRequests, t \in 1..MaxTokens : RefreshFind(r, t)
    \/ \E r \in 1..MaxRefreshRequests : RefreshDeleteExpired(r)
    \/ \E r \in 1..MaxRefreshRequests : RefreshDelete(r)
    \/ \E r \in 1..MaxRefreshRequests : RefreshIssue(r)

SpecRefreshRace == Init /\ [][NextRefreshRace]_vars

----------------------------------------------------------------------------
(* The claims.  Every action stamps lastOp, so a step that is not a        *)
(* stuttering step and ends with lastOp'.op = "x" is a step of request x.  *)

\* The mails sent for a billing event.
MailsFor(ev) == {i \in DOMAIN outbox : outbox[i].event = ev}

\* The sessions of account u created on the calendar day of the clock.
CreatedToday(u) ==
    {s \in DOMAIN sessions :
        sessions[s].userId = u /\ sessions[s].createdAt \div DayMs = now \div DayMs}

\* C1: a second delivery of an invoice.payment_succeeded event the handler has
\* already accepted leaves every account's monthlyMinutesUsed as it is.
C1_RedeliveryDoesNotResetUsage ==
    [][(/\ lastOp'.op = "webhook"
        /\ lastOp'.ev \in delivered
        /\ lastOp'.ev.type = "invoice.payment_succeeded"
        /\ Len(webhookEvents') > Len(webhookEvents))
       => \A u \in Users :
            users'[u].monthlyMinutesUsed = users[u].monthlyMinutesUsed]_vars

\* C2: an invoice.payment_failed event leaves the account PAST_DUE, and over any
\* number of deliveries at most one payment-failed mail is sent for it.
C2_OneMailPerEvent ==
    \A ev \in Events : Cardinality(MailsFor(ev)) <= 1

\* C3: in every step of every request and billing event, no account's
\* monthlyMinutesUsed decreases, except in the handling of a payment-succeeded
\* event, which leaves it 0.
C3_UsageNeverDecreases ==
    [][\A u \in Users :
        \/ users'[u].monthlyMinutesUsed >= users[u].monthlyMinutesUsed
        \/ /\ lastOp'.op = "webhook"
           /\ lastOp'.ev.type = "invoice.payment_succeeded"
           /\ users'[u].monthlyMinutesUsed = 0]_vars

\* C3 witness: a payment-succeeded event has just reset usage that a completed
\* session had credited.
C3_Witness ==
    /\ lastOp.op = "webhook"
    /\ lastOp.ev.type = "invoice.payment_succeeded"
    /\ users["u1"].monthlyMinutesUsed = 0
    /\ \E i \in DOMAIN usageLogs : usageLogs[i].userId = "u1" /\ usageLogs[i].minutes > 0

\* C4: an end request for a session that is COMPLETED, or that another account
\* owns, is answered NotFound and changes no session, account, usage log or
\* analytics row.
C4_EndRejectedChangesNothing ==
    [][(/\ lastOp'.op = "end"
        /\ lastOp'.id \in DOMAIN sessions
        /\ \/ sessions[lastOp'.id].status = "COMPLETED"
           \/ sessions[lastOp'.id].userId # lastOp'.user)
       => /\ lastOp'.status = NotFound
          /\ UNCHANGED <<sessions, users, usageLogs, analytics>>]_vars

\* C4 witness: the owner's end request for a COMPLETED session, whose usage was
\* credited before, has just been refused.
C4_Witness ==
    /\ lastOp.op = "end"
    /\ lastOp.status = NotFound
    /\ lastOp.id \in DOMAIN sessions
    /\ sessions[lastOp.id].userId = lastOp.user
    /\ sessions[lastOp.id].status = "COMPLETED"
    /\ \E i \in DOMAIN usageLogs : usageLogs[i].sessionId = lastOp.id

\* C5: a COMPLETED session never becomes ACTIVE again; a session becomes
\* COMPLETED only in an end request, and exactly then one UsageLog is appended
\* for it; so no session ever has two UsageLog rows.
C5_CompletedExactlyOnce ==
    [][/\ \A s \in DOMAIN sessions \cap DOMAIN sessions' :
            /\ sessions[s].status = "COMPLETED" => sessions'[s].status = "COMPLETED"
            /\ (sessions[s].status # "COMPLETED" /\ sessions'[s].status = "COMPLETED")
                => /\ lastOp'.op = "end"
                   /\ Len(usageLogs') = Len(usageLogs) + 1
                   /\ usageLogs'[Len(usageLogs')].sessionId = s
       /\ \A i, j \in DOMAIN usageLogs' :
            usageLogs'[i].sessionId = usageLogs'[j].sessionId => i = j]_vars

\* C6: a refresh with a stored, unexpired credential succeeds, removes that
\* credential and stores exactly one new one for the same account; a refresh
\* with a credential value an earlier refresh exchanged is answered Unauthorized
\* and stores nothing.
C6_RefreshSingleUse ==
    [][lastOp'.op = "refresh" =>
        /\ \A r \in refreshTokens :
            (r.token = lastOp'.id /\ r.expiresAt >= now)
            => /\ lastOp'.status = Ok
               /\ \A q \in refreshTokens' : q.token # r.token
               /\ \E q \in refreshTokens' \ refreshTokens :
                    /\ q.userId = r.userId
                    /\ refreshTokens' = (refreshTokens \ {r}) \cup {q}
        /\ lastOp'.id \in consumed
            => /\ lastOp'.status = Unauthorized
               /\ UNCHANGED <<refreshTokens, nextToken>>]_vars

\* C6 witness: a refresh with a credential an earlier refresh exchanged has just
\* been refused.
C6_Witness ==
    /\ lastOp.op = "refresh"
    /\ lastOp.id \in consumed
    /\ lastOp.status = Unauthorized

\* C7: a streak-update of an account whose lastActiveDate is today changes no
\* analytics row; a streak-update that changes currentStreak finds lastActiveDate
\* before today and leaves it today, so it is the first one of the day.
C7_SameDayUpdateIsNoOp ==
    [][(lastOp'.op = "streak_update" /\ lastOp'.user \in DOMAIN analytics) =>
        LET row == analytics[lastOp'.user] IN
        /\ (row.lastActiveDate # Null
            /\ row.lastActiveDate \div DayMs = now \div DayMs)
            => analytics' = analytics
        /\ analytics'[lastOp'.user].currentStreak # row.currentStreak
            => /\ row.lastActiveDate = Null \/ row.lastActiveDate \div DayMs < now \div DayMs
               /\ analytics'[lastOp'.user].lastActiveDate \div DayMs = now \div DayMs]_vars

\* C7 witness: a streak-update has just returned "already active today" for an
\* account whose streak of several days a reset would have shortened.
C7_Witness ==
    /\ lastOp.op = "streak_update"
    /\ lastOp.id = 0
    /\ analytics[lastOp.user].currentStreak >= 2

\* C8: a streak-update of an account with no analytics row, with no
\* lastActiveDate, or with a lastActiveDate two or more days before today
\* leaves currentStreak 1 and lastActiveDate today.
C8_GapResetsStreak ==
    [][lastOp'.op = "streak_update" =>
        LET u == lastOp'.user IN
        (\/ u \notin DOMAIN analytics
         \/ analytics[u].lastActiveDate = Null
         \/ analytics[u].lastActiveDate \div DayMs <= (now \div DayMs) - 2)
        => /\ analytics'[u].currentStreak = 1
           /\ analytics'[u].lastActiveDate = StartOfDay(now)]_vars

\* C8 witness: a streak-update has just reset to 1 a streak that had been 2 or
\* more.
C8_Witness ==
    /\ lastOp.op = "streak_update"
    /\ lastOp.id = 1
    /\ analytics[lastOp.user].currentStreak = 1
    /\ analytics[lastOp.user].longestStreak >= 2

\* C9: a creation request of an account that is not ACTIVE (the free plan) and
\* has 3 or more sessions created today is answered TooManyRequests and creates
\* nothing; a creation request of an ACTIVE account (daily cap -1) is refused
\* only when its minutes are used up, whatever its count for today.
C9_DailyCap ==
    [][lastOp'.op = "create" =>
        LET u == lastOp'.user IN
        /\ (users[u].subscriptionStatus # "ACTIVE"
            /\ Cardinality(CreatedToday(u)) >= FreeMaxSessionsPerDay)
            => /\ lastOp'.status = TooManyRequests
               /\ UNCHANGED <<sessions, nextSessionId>>
        /\ (users[u].subscriptionStatus = "ACTIVE"
            /\ users[u].monthlyMinutesUsed < users[u].monthlyMinutesLimit)
            => /\ lastOp'.status = Created
               /\ DOMAIN sessions' = DOMAIN sessions \cup {lastOp'.id}
               /\ lastOp'.id \notin DOMAIN sessions]_vars

\* C9 witness: the fourth creation request of the day of a free account with
\* minutes left has just been refused.
C9_Witness ==
    /\ lastOp.op = "create"
    /\ lastOp.status = TooManyRequests
    /\ users[lastOp.user].subscriptionStatus # "ACTIVE"
    /\ users[lastOp.user].monthlyMinutesUsed < users[lastOp.user].monthlyMinutesLimit
    /\ Cardinality(CreatedToday(lastOp.user)) >= FreeMaxSessionsPerDay

\* C10: a creation request of an account whose monthlyMinutesUsed has reached
\* its monthlyMinutesLimit is answered TooManyRequests and creates nothing.
C10_MinutesCap ==
    [][(/\ lastOp'.op = "create"
        /\ users[lastOp'.user].monthlyMinutesUsed
                >= users[lastOp'.user].monthlyMinutesLimit)
       => /\ lastOp'.status = TooManyRequests
          /\ UNCHANGED <<sessions, nextSessionId>>]_vars

\* C10 witness: a creation request of an ACTIVE (pro) account with no session
\* today has just been refused because its minutes are used up.
C10_Witness ==
    /\ lastOp.op = "create"
    /\ lastOp.status = TooManyRequests
    /\ users[lastOp.user].subscriptionStatus = "ACTIVE"
    /\ users[lastOp.user].monthlyMinutesUsed >= users[lastOp.user].monthlyMinutesLimit
    /\ CreatedToday(lastOp.user) = {}

\* The totals of account u's analytics row, 0 where the row is missing.
TotalSessions(u) == IF u \in DOMAIN analytics THEN analytics[u].totalSessions ELSE 0
TotalDuration(u) == IF u \in DOMAIN analytics THEN analytics[u].totalDuration ELSE 0

\* C11: an end request of the owner for an ACTIVE session succeeds with
\* durationSeconds = floor((now - startedAt) / 1000) and durationMinutes =
\* ceil(durationSeconds / 60); it adds durationMinutes to the owner's
\* monthlyMinutesUsed, appends exactly one SESSION UsageLog with these minutes
\* for the session, and adds 1 to totalSessions and durationSeconds to
\* totalDuration; 125 seconds credit 3 minutes and 0 seconds credit 0.
C11_EndCreditsDuration ==
    [][(/\ lastOp'.op = "end"
        /\ lastOp'.id \in DOMAIN sessions
        /\ sessions[lastOp'.id].userId = lastOp'.user
        /\ sessions[lastOp'.id].status = "ACTIVE")
       => LET s == lastOp'.id
              u == lastOp'.user
              ms == now - sessions[s].startedAt
              seconds == ms \div MsPerSecond
              minutes == IF seconds % SecondsPerMinute = 0
                         THEN seconds \div SecondsPerMinute
                         ELSE (seconds \div SecondsPerMinute) + 1
          IN /\ lastOp'.status = Ok
             /\ sessions'[s].status = "COMPLETED"
             /\ sessions'[s].endedAt = now
             /\ sessions'[s].durationSeconds = seconds
             /\ users'[u].monthlyMinutesUsed = users[u].monthlyMinutesUsed + minutes
             /\ \A v \in Users \ {u} : users'[v] = users[v]
             /\ usageLogs' = Append(usageLogs, [userId |-> u, type |-> "SESSION",
                                                minutes |-> minutes, sessionId |-> s])
             /\ analytics'[u].totalSessions = TotalSessions(u) + 1
             /\ analytics'[u].totalDuration = TotalDuration(u) + seconds
             /\ seconds = 125 =>
                    users'[u].monthlyMinutesUsed = users[u].monthlyMinutesUsed + 3
             /\ seconds = 0 =>
                    users'[u].monthlyMinutesUsed = users[u].monthlyMinutesUsed]_vars

\* C11 witness: a session of 125 seconds has just been ended and 3 minutes were
\* logged for it.
C11_Witness ==
    /\ lastOp.op = "end"
    /\ lastOp.status = Ok
    /\ sessions[lastOp.id].durationSeconds = 125
    /\ usageLogs[Len(usageLogs)].sessionId = lastOp.id
    /\ usageLogs[Len(usageLogs)].minutes = 3
    /\ users[lastOp.user].monthlyMinutesUsed >= 3

\* The edges of the documented subscription state machine.
DocumentedEdges ==
    {<<"FREE", "ACTIVE">>, <<"ACTIVE", "PAST_DUE">>, <<"PAST_DUE", "ACTIVE">>,
     <<"ACTIVE", "CANCELED">>, <<"PAST_DUE", "CANCELED">>}
    \cup {<<s, "FREE">> : s \in {"ACTIVE", "PAST_DUE", "CANCELED"}}

\* C12: in every step of every webhook event and every cancel or resume
\* request, an account's subscriptionStatus stays as it is or moves along an
\* edge of the documented state machine: FREE to ACTIVE, ACTIVE to PAST_DUE,
\* PAST_DUE to ACTIVE, ACTIVE or PAST_DUE to CANCELED, and to FREE.
C12_StatusStateMachine ==
    [][\A u \in Users :
        \/ users'[u].subscriptionStatus = users[u].subscriptionStatus
        \/ <<users[u].subscriptionStatus, users'[u].subscriptionStatus>>
                \in DocumentedEdges]_vars

\* The accounts a billing event is about.
AccountsOf(ev) ==
    {u \in Users : users[u].stripeCustomerId = ev.customer \/ ev.userId = u}

\* C13: after a billing event has been handled for an account, the account's
\* monthlyMinutesLimit is 600 when its subscriptionStatus is ACTIVE and 60 when
\* it is anything else.
C13_LimitFollowsStatus ==
    [][(lastOp'.op = "webhook" /\ lastOp'.status = Ok) =>
        \A u \in AccountsOf(lastOp'.ev) :
            users'[u].monthlyMinutesLimit =
                IF users'[u].subscriptionStatus = "ACTIVE"
                THEN ProMonthlyMinutes ELSE FreeMonthlyMinutes]_vars

\* C14: handling an invoice.payment_succeeded event sets monthlyMinutesUsed to 0
\* and lastUsageReset to the time of handling for the account of the event's
\* billing customer, and changes no other field of it and no other account; for
\* a customer no account refers to, no account changes.
C14_PaymentSucceededFrame ==
    [][(/\ lastOp'.op = "webhook"
        /\ lastOp'.status = Ok
        /\ lastOp'.ev.type = "invoice.payment_succeeded")
       => \A u \in Users :
            users'[u] = IF users[u].stripeCustomerId = lastOp'.ev.customer
                        THEN [users[u] EXCEPT !.monthlyMinutesUsed = 0,
                                              !.lastUsageReset = now]
                        ELSE users[u]]_vars

\* C14 witness: a payment-succeeded event has just reset the credited usage of
\* a PAST_DUE account, which is PAST_DUE still.
C14_Witness ==
    /\ lastOp.op = "webhook"
    /\ lastOp.status = Ok
    /\ lastOp.ev.type = "invoice.payment_succeeded"
    /\ users["u1"].stripeCustomerId = lastOp.ev.customer
    /\ users["u1"].subscriptionStatus = "PAST_DUE"
    /\ users["u1"].monthlyMinutesUsed = 0
    /\ users["u1"].lastUsageReset = now
    /\ now > 0
    /\ \E i \in DOMAIN usageLogs : usageLogs[i].userId = "u1" /\ usageLogs[i].minutes > 0

\* C15: a verified delivery during which a handler (or the marking of the
\* record) throws is answered 500 and leaves its record with the error and not
\* processed; a verified delivery during which nothing throws is answered 200
\* and leaves its record processed.
C15_FailureRecorded ==
    [][(lastOp'.op = "webhook" /\ lastOp'.status # BadRequest) =>
        /\ Len(webhookEvents') = Len(webhookEvents) + 1
        /\ LET record == webhookEvents'[Len(webhookEvents')] IN
           /\ record.eventType = lastOp'.ev.type
           /\ lastOp'.id # 0 =>
                /\ lastOp'.status = InternalError
                /\ record.error # NoString
                /\ ~record.processed
           /\ lastOp'.id = 0 =>
                /\ lastOp'.status = Ok
                /\ record.processed]_vars

\* C15 witness: the handler of a checkout-completed event for account u1 has
\* just thrown; the delivery was answered 500, its record holds the error and
\* the account is not ACTIVE.
C15_Witness ==
    /\ lastOp.op = "webhook"
    /\ lastOp.id = 1
    /\ lastOp.status = InternalError
    /\ lastOp.ev = CheckoutCompleted
    /\ webhookEvents[Len(webhookEvents)].error # NoString
    /\ ~webhookEvents[Len(webhookEvents)].processed
    /\ users["u1"].subscriptionStatus = "FREE"

\* C16: a webhook request whose signature is refused is answered 400 and has no
\* effect: no WebhookEvent record is created or changed, no account changes and
\* no mail is sent.
C16_BadSignatureNoEffect ==
    [][(lastOp'.op = "webhook" /\ lastOp'.ev = NoEvent) =>
        /\ lastOp'.status = BadRequest
        /\ UNCHANGED <<webhookEvents, users, outbox, delivered,
                       sessions, usageLogs, analytics>>]_vars

\* C16 witness: a request with a refused signature has just been answered 400
\* while the account is subscribed and an earlier delivery is on record.
C16_Witness ==
    /\ lastOp.op = "webhook"
    /\ lastOp.ev = NoEvent
    /\ lastOp.status = BadRequest
    /\ Len(webhookEvents) >= 1
    /\ users["u1"].subscriptionStatus = "ACTIVE"

\* C17: a refresh with a stored credential past its expiry is answered
\* Unauthorized and deletes that credential and nothing else; a refresh with a
\* value that is not stored is answered Unauthorized and changes nothing; in
\* both cases no credential is issued.
C17_ExpiredOrUnknownRefused ==
    [][lastOp'.op = "refresh" =>
        /\ (\E r \in refreshTokens : r.token = lastOp'.id /\ r.expiresAt < now)
            => /\ lastOp'.status = Unauthorized
               /\ refreshTokens' = {q \in refreshTokens : q.token # lastOp'.id}
               /\ nextToken' = nextToken
        /\ (\A r \in refreshTokens : r.token # lastOp'.id)
            => /\ lastOp'.status = Unauthorized
               /\ UNCHANGED <<refreshTokens, nextToken, users, sessions>>]_vars

\* C17 witness: a refresh with an expired credential has just been refused and
\* the credential is gone, while a younger credential is stored still.
C17_Witness ==
    /\ lastOp.op = "refresh"
    /\ lastOp.status = Unauthorized
    /\ lastOp.user # NoString
    /\ lastOp.id \notin consumed
    /\ \A r \in refreshTokens : r.token # lastOp.id
    /\ refreshTokens # {}

\* C18: a logout-all of an account deletes every stored credential of that
\* account and none of another account; a refresh with a value that was issued
\* to an account before a logout-all of it is answered Unauthorized and issues
\* nothing.
C18_LogoutAllRevokes ==
    [][/\ lastOp'.op = "logout_all" =>
            /\ \A r \in refreshTokens' : r.userId # lastOp'.user
            /\ \A r \in refreshTokens : r.userId # lastOp'.user => r \in refreshTokens'
            /\ refreshTokens' \subseteq refreshTokens
       /\ (lastOp'.op = "refresh" /\ lastOp'.id \in revoked) =>
            /\ lastOp'.status = Unauthorized
            /\ nextToken' = nextToken
            /\ refreshTokens' \subseteq refreshTokens]_vars

\* C18 witness: a refresh with a credential that was neither exchanged nor
\* expired, issued before a logout-all of its account, has just been refused,
\* while a credential of the other account is stored still.
C18_Witness ==
    /\ lastOp.op = "refresh"
    /\ lastOp.status = Unauthorized
    /\ lastOp.id \in revoked
    /\ lastOp.id \notin consumed
    /\ now < RefreshDays * DayMs
    /\ \E r \in refreshTokens : r.userId # issued[lastOp.id]

\* The UsageLog rows of session s, and the COMPLETED sessions of account u.
LogsOf(s) == {i \in DOMAIN usageLogs : usageLogs[i].sessionId = s}
CompletedOf(u) ==
    {s \in DOMAIN sessions : sessions[s].userId = u /\ sessions[s].status = "COMPLETED"}

\* C19: under every interleaving of the calls of concurrent end requests, a
\* session is credited at most once: it has at most one UsageLog, and an
\* account's totalSessions is at most the number of its COMPLETED sessions.
C19_ConcurrentEndCreditsOnce ==
    /\ \A s \in DOMAIN sessions : Cardinality(LogsOf(s)) <= 1
    /\ \A u \in Users : TotalSessions(u) <= Cardinality(CompletedOf(u))

\* Whether no end request is between its first write and its response.
NoEndInFlight ==
    \A r \in DOMAIN endRequests : endRequests[r].pc \in {"refused", "done", "failed"}

\* C20: whenever no end request is in flight, every COMPLETED session has its
\* UsageLog, and its owner has the session counted in totalSessions and the
\* logged minutes in monthlyMinutesUsed: the effects of a completion are applied
\* all together or not at all.
C20_CompletionAtomic ==
    NoEndInFlight =>
        \A s \in DOMAIN sessions :
            sessions[s].status = "COMPLETED" =>
                /\ LogsOf(s) # {}
                /\ TotalSessions(sessions[s].userId) >= 1
                /\ \A i \in LogsOf(s) :
                      users[sessions[s].userId].monthlyMinutesUsed >= usageLogs[i].minutes

\* C21: handling an invoice.payment_succeeded event for an account that an
\* invoice.payment_failed event has put in PAST_DUE leaves the account ACTIVE.
C21_PaymentRecovered ==
    [][(/\ lastOp'.op = "webhook"
        /\ lastOp'.status = Ok
        /\ lastOp'.ev.type = "invoice.payment_succeeded")
       => \A u \in Users :
            (/\ users[u].stripeCustomerId = lastOp'.ev.customer
             /\ users[u].subscriptionStatus = "PAST_DUE")
            => users'[u].subscriptionStatus = "ACTIVE"]_vars

\* The calendar day of a time.
DayOf(t) == t \div DayMs

\* C22: a streak-update of an account whose lastActiveDate is on the calendar
\* day before today leaves currentStreak one more than it was and
\* lastActiveDate today.
C22_YesterdayContinuesStreak ==
    [][(/\ lastOp'.op = "streak_update"
        /\ lastOp'.user \in DOMAIN analytics
        /\ analytics[lastOp'.user].lastActiveDate # Null
        /\ DayOf(analytics[lastOp'.user].lastActiveDate) = DayOf(now) - 1)
       => /\ analytics'[lastOp'.user].currentStreak
                = analytics[lastOp'.user].currentStreak + 1
          /\ DayOf(analytics'[lastOp'.user].lastActiveDate) = DayOf(now)]_vars

\* C22 witness: a streak-update has just continued a streak to its third day.
C22_Witness ==
    /\ lastOp.op = "streak_update"
    /\ lastOp.id = 1
    /\ analytics[lastOp.user].currentStreak = 3
    /\ DayOf(analytics[lastOp.user].lastActiveDate) = DayOf(now)

\* The longestStreak of account u's analytics row, 0 where the row is missing.
LongestStreak(u) == IF u \in DOMAIN analytics THEN analytics[u].longestStreak ELSE 0

\* C23: in every state longestStreak >= currentStreak >= 0; every streak-update
\* leaves longestStreak the greater of what it was and the new currentStreak;
\* and no streak-check, streak-update or session completion removes an
\* analytics row or lowers its longestStreak.
C23_LongestStreak ==
    /\ [](\A u \in DOMAIN analytics :
            /\ analytics[u].currentStreak >= 0
            /\ analytics[u].longestStreak >= analytics[u].currentStreak)
    /\ [][/\ lastOp'.op = "streak_update" =>
                analytics'[lastOp'.user].longestStreak
                    = IF LongestStreak(lastOp'.user)
                            >= analytics'[lastOp'.user].currentStreak
                      THEN LongestStreak(lastOp'.user)
                      ELSE analytics'[lastOp'.user].currentStreak
          /\ \A u \in DOMAIN analytics :
                /\ u \in DOMAIN analytics'
                /\ analytics'[u].longestStreak >= analytics[u].longestStreak]_vars

\* C23 witness: a streak-update has just started a new streak for an account
\* that has completed a session and whose longest streak stays longer.
C23_Witness ==
    /\ lastOp.op = "streak_update"
    /\ lastOp.id = 1
    /\ analytics[lastOp.user].totalSessions >= 1
    /\ analytics[lastOp.user].currentStreak >= 1
    /\ analytics[lastOp.user].longestStreak > analytics[lastOp.user].currentStreak

\* C24: a streak-check of an account whose lastActiveDate is before yesterday
\* sets currentStreak to 0 and reports 0; any other streak-check writes nothing
\* and reports the stored currentStreak (0 where the account has no row); no
\* streak-check changes longestStreak or lastActiveDate.
C24_StreakCheckFrame ==
    [][lastOp'.op = "streak_check" =>
        LET u == lastOp'.user IN
        IF /\ u \in DOMAIN analytics
           /\ analytics[u].lastActiveDate # Null
           /\ DayOf(analytics[u].lastActiveDate) < DayOf(now) - 1
        THEN /\ analytics' = [analytics EXCEPT ![u].currentStreak = 0]
             /\ lastOp'.id = 0
        ELSE /\ analytics' = analytics
             /\ lastOp'.id = IF u \in DOMAIN analytics
                             THEN analytics[u].currentStreak ELSE 0]_vars

\* C24 witness: a streak-check has just reset a streak whose last active day is
\* two or more days back, and the longest streak and the day are kept.
C24_Witness ==
    /\ lastOp.op = "streak_check"
    /\ lastOp.id = 0
    /\ lastOp.user \in DOMAIN analytics
    /\ analytics[lastOp.user].currentStreak = 0
    /\ analytics[lastOp.user].longestStreak >= 2
    /\ analytics[lastOp.user].lastActiveDate # Null
    /\ DayOf(analytics[lastOp.user].lastActiveDate) < DayOf(now) - 1

\* C25: an end request of the owner for an ACTIVE session succeeds and credits
\* the session's full minutes whatever the account's usage and limit are, also
\* when that leaves monthlyMinutesUsed above monthlyMinutesLimit; a creation
\* request of an account whose usage has reached or passed its limit is refused.
C25_CapOnlyAtCreation ==
    [][/\ (/\ lastOp'.op = "end"
           /\ lastOp'.id \in DOMAIN sessions
           /\ sessions[lastOp'.id].userId = lastOp'.user
           /\ sessions[lastOp'.id].status = "ACTIVE")
          => /\ lastOp'.status = Ok
             /\ users'[lastOp'.user].monthlyMinutesUsed
                    = users[lastOp'.user].monthlyMinutesUsed
                      + CeilDiv((now - sessions[lastOp'.id].startedAt) \div MsPerSecond,
                                SecondsPerMinute)
       /\ (/\ lastOp'.op = "create"
           /\ users[lastOp'.user].monthlyMinutesUsed
                    >= users[lastOp'.user].monthlyMinutesLimit)
          => /\ lastOp'.status = TooManyRequests
             /\ sessions' = sessions]_vars

\* C25 witness: a creation request has just been refused for an account that
\* one completed session took from below its limit to above it.
C25_Witness ==
    /\ lastOp.op = "create"
    /\ lastOp.status = TooManyRequests
    /\ users[lastOp.user].monthlyMinutesUsed > users[lastOp.user].monthlyMinutesLimit
    /\ \E i \in DOMAIN usageLogs :
            /\ usageLogs[i].userId = lastOp.user
            /\ users[lastOp.user].monthlyMinutesUsed - usageLogs[i].minutes
                    < users[lastOp.user].monthlyMinutesLimit

\* C26: the limit check and the insert of a creation request are separate
\* steps with nothing between them that excludes another request: a request
\* that has passed the check inserts its session whatever the account's count
\* of today's sessions has become by then.
C26_InsertDoesNotRecheck ==
    [][lastOp'.op = "create_insert" =>
        /\ lastOp'.status = Created
        /\ lastOp'.id \notin DOMAIN sessions
        /\ DOMAIN sessions' = DOMAIN sessions \cup {lastOp'.id}
        /\ sessions'[lastOp'.id].userId = lastOp'.user]_vars

\* C26 witness: two creation requests of a free account have both read a count
\* of 2 for today, have both inserted, and the account has 4 sessions created
\* today.
C26_Witness ==
    /\ users["u1"].subscriptionStatus # "ACTIVE"
    /\ \E r, q \in DOMAIN createRequests :
            /\ r # q
            /\ createRequests[r].user = "u1" /\ createRequests[q].user = "u1"
            /\ createRequests[r].seen = 2 /\ createRequests[q].seen = 2
            /\ createRequests[r].pc = "done" /\ createRequests[q].pc = "done"
    /\ Cardinality(CreatedToday("u1")) = 4
    /\ Cardinality(CreatedToday("u1")) > FreeMaxSessionsPerDay

\* C27: a verified delivery changes, of the WebhookEvent records, only the one
\* it has created: the records of earlier deliveries keep their processed flag
\* and their error.
C27_OnlyOwnRecordChanges ==
    [][(lastOp'.op = "webhook" /\ lastOp'.ev # NoEvent) =>
        \A i \in DOMAIN webhookEvents : webhookEvents'[i] = webhookEvents[i]]_vars

\* The refresh calls that presented credential value t, and those of them that
\* succeeded.
CallsWith(t) == {r \in DOMAIN refreshRequests : refreshRequests[r].token = t}
SucceededWith(t) == {r \in CallsWith(t) : refreshRequests[r].pc = "done"}

\* C28: under every interleaving of concurrent refresh calls, at most one call
\* succeeds for a credential value, so at most one new credential is stored in
\* exchange for it; and once a call that found the value valid has finished,
\* successfully or not, the value is not stored.
C28_ConcurrentRefreshOnce ==
    \A t \in 1..MaxTokens :
        /\ Cardinality(SucceededWith(t)) <= 1
        /\ (\E r \in CallsWith(t) : refreshRequests[r].pc \in {"issue", "done", "failed"})
            => StoredTokens(t) = {}

\* C28 witness: two calls have presented the same valid credential; both found
\* it, one has succeeded and the other has failed on its delete, and the
\* account has exactly one credential stored.
C28_Witness ==
    \E t \in 1..MaxTokens : \E r, q \in CallsWith(t) :
        /\ refreshRequests[r].pc = "done"
        /\ refreshRequests[q].pc = "failed"
        /\ StoredTokens(t) = {}
        /\ Cardinality({x \in refreshTokens : x.userId = refreshRequests[r].row.userId}) = 1

\* Whether no streak request is between its read and its write.
NoStreakInFlight ==
    \A r \in DOMAIN streakRequests : streakRequests[r].pc \in {"done", "failed"}

\* C29: under every interleaving of streak-checks and streak-updates, once the
\* requests have finished, an account whose lastActiveDate is today has a
\* currentStreak of 1 or more.
C29_ActiveTodayHasStreak ==
    NoStreakInFlight =>
        \A u \in DOMAIN analytics :
            (/\ analytics[u].lastActiveDate # Null
             /\ DayOf(analytics[u].lastActiveDate) = DayOf(now))
            => analytics[u].currentStreak >= 1

\* C30: where requests do not overlap, a free account creates at most 3
\* sessions on one calendar day, also when it deletes sessions in between.
\* Session ids are handed out in sequence from 1, so on the first day
\* nextSessionId - 1 is the number of sessions created that day, the deleted
\* ones included; account u1, the only one to create here, is free for as long
\* as no checkout has made it ACTIVE.
C30_DailyCapCountsDeleted ==
    (now < DayMs /\ users["u1"].subscriptionStatus # "ACTIVE")
        => nextSessionId - 1 <= FreeMaxSessionsPerDay
====
